---------------------------- MODULE Spec2Model ----------------------------
(***************************************************************************)
(* Model of the smart-sales analytics project:                             *)
(*   - DataScrubber (src/analytics_project/data_scrubber.py)               *)
(*   - the sales preparation pipeline (data_prep/prepare_sales_data.py)    *)
(*   - the warehouse loader (dw/etl_to_dw.py)                              *)
(*                                                                         *)
(* A cell of a DataFrame is one of                                         *)
(*   Null          a missing value (NaN / None / NaT)                      *)
(*   Num(n)        a number                                                *)
(*   Str(s)        a text value                                            *)
(* A DataFrame (Record Set) is [cols |-> <<names>>, rows |-> <<rows>>],    *)
(* every row a tuple of cells aligned with cols.                           *)
(***************************************************************************)
EXTENDS Integers, Sequences, FiniteSets, TLC

VARIABLES
    df,         \* DataScrubber.df, the Record Set the Scrubber owns
    df0,        \* the Record Set the Scrubber was constructed with
    df_in,      \* the Record Set as it was before the last Scrubber call
    call,       \* the last Scrubber call: its name and arguments
    trace,      \* names of the Scrubber calls made so far, oldest first
    arg,        \* the column arguments of the last Scrubber call
    err,        \* the exception the last Scrubber call raised, or "none"
    maxCalls,   \* number of Scrubber calls the behaviour may make
    rawSales,   \* data/raw/sales_data.csv (Missing or a Record Set)
    prepCust,   \* data/prepared/customers_data_prepared.csv
    prepProd,   \* data/prepared/products_data_prepared.csv
    prepSales,  \* data/prepared/sales_data_prepared.csv
    rawCust,    \* data/raw/customers_data.csv
    rawProd,    \* data/raw/products_data.csv
    domain,     \* the domain whose pipeline (main) runs, or "none"
    mainPc,     \* position of that main
    work,       \* the DataFrame main holds (df), with its numeric columns
    steps,      \* the steps main has completed so far, oldest first
    passes,     \* the column passes of remove_outliers so far, oldest first
    dbFile,     \* data/warehouse/smart_sales_dw.db (NoFile or its tables)
    dbBefore,   \* the warehouse file as the current run found it
    goodRuns,   \* prepared input and tables of each successful run, oldest first
    conn,       \* the run's connection: "none", "open" or "closed"
    openConns,  \* number of warehouse connections currently open
    pc,         \* position of load_data_to_dw
    raisedAt,   \* step of load_data_to_dw that raised in this run, or "none"
    runs        \* number of runs of load_data_to_dw started

scrubVars == <<df, df0, df_in, call, trace, arg, err, maxCalls>>
prepVars  == <<rawSales, prepCust, prepProd, prepSales, rawCust, rawProd>>
mainVars  == <<domain, mainPc, work, steps, passes>>
dwVars    == <<dbFile, dbBefore, goodRuns, conn, openConns, pc, raisedAt, runs>>
vars      == <<scrubVars, prepVars, mainVars, dwVars>>

---------------------------------------------------------------------------
(* Bounds of the model *)

MaxRows == 3        \* rows of a Scrubber Record Set
MaxOps == 2         \* Scrubber calls in one behaviour
MaxDimRows == 2     \* rows of a prepared dimension file
MaxSalesRows == 2   \* rows of a sales file (raw or prepared)
MaxRuns == 2        \* runs of load_data_to_dw in one behaviour

---------------------------------------------------------------------------
(* Cells, rows, Record Sets *)

Null == [k |-> "null"]
Num(n) == [k |-> "num", n |-> n]
Str(s) == [k |-> "str", s |-> s]
None == [k |-> "none"]          \* Python None as an argument ("unset")

isna(v) == v.k = "null"
is_number(v) == v.k = "num"

Range(s) == {s[i] : i \in 1..Len(s)}

SeqsUpTo(S, n) == UNION {[1..m -> S] : m \in 0..n}

\* The subsequence of s at the positions in I, in order (boolean-mask indexing)
RECURSIVE Pick(_, _, _)
Pick(s, I, i) ==
    IF i > Len(s) THEN <<>>
    ELSE (IF i \in I THEN <<s[i]>> ELSE <<>>) \o Pick(s, I, i + 1)

Mask(s, I) == Pick(s, I, 1)

ColIndex(cols, name) == CHOOSE i \in 1..Len(cols) : cols[i] = name
HasCol(cols, name) == \E i \in 1..Len(cols) : cols[i] = name

\* A CSV file: absent, or a header and rows
Missing == [exists |-> FALSE]
File(cols, rows) == [exists |-> TRUE, cols |-> cols, rows |-> rows]

\* A file that exists and that read_csv cannot read (any other exception)
Unreadable == [exists |-> TRUE, unreadable |-> TRUE]

\* The warehouse file: absent, or a database with its committed tables
NoFile == [exists |-> FALSE]
Db(schema, c, p, f) ==
    [exists |-> TRUE, schema |-> schema,
     dim_customer |-> c, dim_product |-> p, fact_sales |-> f]

\* The prepared input a successful run read and the tables it left
GoodRun(c, p, f, db) == [cust |-> c, prod |-> p, sales |-> f, db |-> db]

---------------------------------------------------------------------------
(* pandas operations used by the code *)

\* DataFrame.duplicated(): TRUE for a row equal in all columns to an earlier one
duplicated(rows) == {i \in 1..Len(rows) : \E j \in 1..(i - 1) : rows[j] = rows[i]}

\* keep="last" in place of the default keep="first"
mutant_drop_duplicates_keep_last(rows) ==
    Mask(rows, {i \in 1..Len(rows) : \A j \in (i + 1)..Len(rows) : rows[j] # rows[i]})

\* A dedup that removes only the first duplicate it meets
mutant_drop_duplicates_once(rows) ==
    LET d == duplicated(rows)
    IN IF d = {} THEN rows
       ELSE LET f == CHOOSE i \in d : \A j \in d : i <= j
            IN Mask(rows, (1..Len(rows)) \ {f})

\* The rows that are kept come back in reverse order
mutant_drop_duplicates_reversed(rows) ==
    LET kept == Mask(rows, (1..Len(rows)) \ duplicated(rows))
    IN [i \in 1..Len(kept) |-> kept[Len(kept) + 1 - i]]

\* DataFrame.drop_duplicates(): keep="first" over all columns
drop_duplicates(rows) == Mask(rows, (1..Len(rows)) \ duplicated(rows))

\* how="all" in place of the default how="any"
mutant_dropna_any(rows) ==
    Mask(rows, {i \in 1..Len(rows) : \E c \in 1..Len(rows[i]) : ~isna(rows[i][c])})

\* DataFrame.dropna(): how="any", drop a row holding at least one null
dropna_any(rows) ==
    Mask(rows, {i \in 1..Len(rows) : \A c \in 1..Len(rows[i]) : ~isna(rows[i][c])})

\* DataFrame.dropna(how="all"): drop a row whose cells are all null
dropna_all(rows) ==
    Mask(rows, {i \in 1..Len(rows) : \E c \in 1..Len(rows[i]) : ~isna(rows[i][c])})

\* DataFrame.fillna(value): every null cell becomes value
fillna(rows, value) ==
    [i \in 1..Len(rows) |->
        [c \in 1..Len(rows[i]) |-> IF isna(rows[i][c]) THEN value ELSE rows[i][c]]]

---------------------------------------------------------------------------
(* DataScrubber *)

ScrubCols == <<"name", "age">>
ScrubRow == {<<n, a>> : n \in {Null, Str("a")}, a \in {Null, Num(25)}}
ScrubInputs == {[cols |-> ScrubCols, rows |-> r] : r \in SeqsUpTo(ScrubRow, MaxRows)}

\* fill_value arguments: unset, or a supplied value (0 is falsy in Python)
FillValues == {None, Num(0), Str("x")}

Call(op, drop, fill_value) == [op |-> op, drop |-> drop, fill_value |-> fill_value]

\* A call that takes no column argument
NoArgs == [column |-> None]

\* State of everything outside the Scrubber while no pipeline or load runs
\* No main of a domain pipeline runs
MainQuiet ==
    /\ domain = "none"
    /\ mainPc = "idle"
    /\ work = [cols |-> <<>>, rows |-> <<>>, numeric |-> {}]
    /\ steps = <<>>
    /\ passes = <<>>

PrepQuiet ==
    /\ rawSales = Missing
    /\ prepCust = Missing
    /\ prepProd = Missing
    /\ prepSales = Missing
    /\ rawCust = Missing
    /\ rawProd = Missing
    /\ MainQuiet

DwQuiet ==
    /\ dbFile = NoFile
    /\ dbBefore = NoFile
    /\ goodRuns = <<>>
    /\ conn = "none"
    /\ openConns = 0
    /\ pc = "idle"
    /\ raisedAt = "none"
    /\ runs = 0

ScrubQuiet ==
    /\ df = [cols |-> <<>>, rows |-> <<>>]
    /\ df0 = df
    /\ df_in = df
    /\ call = Call("init", FALSE, None)
    /\ trace = <<>>
    /\ arg = NoArgs
    /\ err = "none"
    /\ maxCalls = 0

\* DataScrubber.__init__
InitScrub ==
    /\ df \in ScrubInputs
    /\ df0 = df
    /\ df_in = df
    /\ call = Call("init", FALSE, None)
    /\ trace = <<>>
    /\ arg = NoArgs
    /\ err = "none"
    /\ maxCalls = MaxOps
    /\ PrepQuiet
    /\ DwQuiet

\* DataScrubber.remove_duplicate_records
remove_duplicate_records ==
    /\ Len(trace) < maxCalls
    /\ df' = [df EXCEPT !.rows = drop_duplicates(df.rows)]
    /\ df_in' = df
    /\ df0' = df0
    /\ call' = Call("remove_duplicate_records", FALSE, None)
    /\ trace' = Append(trace, "remove_duplicate_records")
    /\ arg' = NoArgs
    /\ err' = "none"
    /\ maxCalls' = maxCalls
    /\ UNCHANGED <<prepVars, mainVars, dwVars>>

\* `elif fill_value:` in place of `elif fill_value is not None:`
mutant_fill_requested(fill_value) == fill_value \notin {None, Num(0), Str("")}

\* the test `fill_value is not None`
fill_requested(fill_value) == fill_value # None

\* DataScrubber.handle_missing_data
handle_missing_data ==
    /\ Len(trace) < maxCalls
    /\ \E drop \in BOOLEAN, fill_value \in FillValues :
        /\ df' = IF drop
                   THEN [df EXCEPT !.rows = dropna_any(df.rows)]
                 ELSE IF fill_requested(fill_value)
                   THEN [df EXCEPT !.rows = fillna(df.rows, fill_value)]
                 ELSE df
        /\ call' = Call("handle_missing_data", drop, fill_value)
    /\ df_in' = df
    /\ df0' = df0
    /\ trace' = Append(trace, "handle_missing_data")
    /\ arg' = NoArgs
    /\ err' = "none"
    /\ maxCalls' = maxCalls
    /\ UNCHANGED <<prepVars, mainVars, dwVars>>

NextScrub ==
    \/ remove_duplicate_records
    \/ handle_missing_data

SpecScrub == InitScrub /\ [][NextScrub]_vars

---------------------------------------------------------------------------
(* Properties of the Scrubber *)

HasExactDuplicate(rows) ==
    \E i, j \in 1..Len(rows) : i < j /\ rows[i] = rows[j]

\* Position of the first row of rows equal to r
FirstIndex(rows, r) ==
    CHOOSE i \in 1..Len(rows) : rows[i] = r /\ \A j \in 1..(i - 1) : rows[j] # r

AfterRemoveDuplicateRecords == call.op = "remove_duplicate_records"

\* C8: remove_duplicate_records leaves exactly the rows not equal in all
\* columns to an earlier row, in their original relative order: no two rows
\* of the result are equal, every distinct input row occurs in it, and the
\* row count strictly decreases when the input held an exact duplicate.
C8_RemoveDuplicatesKeepsFirst ==
    AfterRemoveDuplicateRecords =>
        LET old == df_in.rows
            new == df.rows
        IN /\ df.cols = df_in.cols
           /\ \A i, j \in 1..Len(new) : i # j => new[i] # new[j]
           /\ Range(new) = Range(old)
           /\ \A i, j \in 1..Len(new) :
                i < j => FirstIndex(old, new[i]) < FirstIndex(old, new[j])
           /\ Len(new) <= Len(old)
           /\ HasExactDuplicate(old) => Len(new) < Len(old)

C8_Witness ==
    /\ AfterRemoveDuplicateRecords
    /\ HasExactDuplicate(df_in.rows)
    /\ Len(df.rows) = 2
    /\ Len(df_in.rows) = 3

TwiceRemoveDuplicateRecords ==
    /\ Len(trace) >= 2
    /\ trace[Len(trace)] = "remove_duplicate_records"
    /\ trace[Len(trace) - 1] = "remove_duplicate_records"

\* C9: remove_duplicate_records is idempotent: a second call right after a
\* first leaves the Record Set the first call produced.
C9_RemoveDuplicatesIdempotent ==
    TwiceRemoveDuplicateRecords => df = df_in

C9_Witness ==
    /\ TwiceRemoveDuplicateRecords
    /\ Len(trace) = 2
    /\ Len(df0.rows) = 3
    /\ Len(df.rows) = 1

AfterFill ==
    /\ call.op = "handle_missing_data"
    /\ ~call.drop
    /\ call.fill_value # None

\* C10: after handle_missing_data(fill_value=X) with drop unset, no cell is
\* null, every cell that was null equals X, every other cell is unchanged
\* and the row count is unchanged.
C10_FillReplacesEveryNull ==
    AfterFill =>
        LET old == df_in.rows
            new == df.rows
        IN /\ df.cols = df_in.cols
           /\ Len(new) = Len(old)
           /\ \A i \in 1..Len(new) :
                /\ Len(new[i]) = Len(old[i])
                /\ \A c \in 1..Len(new[i]) :
                    /\ ~isna(new[i][c])
                    /\ isna(old[i][c]) => new[i][c] = call.fill_value
                    /\ ~isna(old[i][c]) => new[i][c] = old[i][c]

C10_Witness ==
    /\ AfterFill
    /\ call.fill_value = Num(0)
    /\ \E i \in 1..Len(df_in.rows) :
        /\ isna(df_in.rows[i][1])
        /\ ~isna(df_in.rows[i][2])
        /\ df.rows[i] = <<Num(0), df_in.rows[i][2]>>

HasNull(row) == \E c \in 1..Len(row) : isna(row[c])

\* Positions of the rows of rows that hold no null
NullFree(rows) == {i \in 1..Len(rows) : ~HasNull(rows[i])}

\* new is the subsequence of old at the positions in keep, in order
IsSubsequenceAt(new, old, keep) ==
    /\ Len(new) = Cardinality(keep)
    /\ \A i \in keep :
        new[Cardinality({j \in keep : j <= i})] = old[i]

AfterDrop ==
    /\ call.op = "handle_missing_data"
    /\ call.drop

\* C11: after handle_missing_data(drop=True), with or without a fill_value
\* (drop takes precedence and no cell is filled), the Record Set holds
\* exactly the input rows that had no null, in their original order; its
\* row count is at most the original and strictly smaller when some row
\* held a null.
C11_DropRemovesRowsWithNull ==
    AfterDrop =>
        LET old == df_in.rows
            new == df.rows
        IN /\ df.cols = df_in.cols
           /\ IsSubsequenceAt(new, old, NullFree(old))
           /\ Len(new) <= Len(old)
           /\ (\E i \in 1..Len(old) : HasNull(old[i])) => Len(new) < Len(old)

C11_Witness ==
    /\ AfterDrop
    /\ call.fill_value = Num(0)
    /\ Len(df_in.rows) = 3
    /\ Len(df.rows) = 1
    /\ \E i \in 1..3 : isna(df_in.rows[i][1]) /\ ~isna(df_in.rows[i][2])

---------------------------------------------------------------------------
(* Warehouse loader: column mapping *)

\* str.strip().str.lower() on a header name
strip_lower(name) ==
    CASE name = "CustomerID" -> "customerid"
      [] name = "Name" -> "name"
      [] name = "Region" -> "region"
      [] name = "JoinDate" -> "joindate"
      [] name = "ProductID" -> "productid"
      [] name = "ProductName" -> "productname"
      [] name = "Category" -> "category"
      [] name = "UnitPrice" -> "unitprice"
      [] name = "TransactionID" -> "transactionid"
      [] name = "SaleAmount" -> "saleamount"
      [] name = "SaleDate" -> "saledate"
      [] OTHER -> name

normalize_columns(cols) == [i \in 1..Len(cols) |-> strip_lower(cols[i])]

\* DataFrame.rename(columns=mapping): names outside the mapping are kept
rename(cols, mapping) ==
    [i \in 1..Len(cols) |->
        IF cols[i] \in DOMAIN mapping THEN mapping[cols[i]] ELSE cols[i]]

customer_columns ==
    ("customerid" :> "customer_id") @@ ("name" :> "name") @@
    ("region" :> "region") @@ ("joindate" :> "join_date")

product_columns ==
    ("productid" :> "product_id") @@ ("productname" :> "product_name") @@
    ("category" :> "category") @@ ("unitprice" :> "unit_price")

sales_columns ==
    ("transactionid" :> "sale_id") @@ ("customerid" :> "customer_id") @@
    ("productid" :> "product_id") @@ ("saleamount" :> "sale_amount") @@
    ("saledate" :> "sale_date")

dim_customer_cols == <<"customer_id", "name", "region", "join_date">>
dim_product_cols == <<"product_id", "product_name", "category", "unit_price">>
fact_sales_cols == <<"sale_id", "customer_id", "product_id", "sale_amount", "sale_date">>

\* A cell of a CSV file as pandas.read_csv returns it: an empty field is NaN
read_cell(v) == IF v \in {Str(""), Str("NA"), Str("NaN")} THEN Null ELSE v

\* pandas.read_csv on an existing file
read_csv(file) ==
    [cols |-> file.cols,
     rows |-> [i \in 1..Len(file.rows) |->
                 [c \in 1..Len(file.rows[i]) |-> read_cell(file.rows[i][c])]]]

\* DataFrame.to_csv(index=False): a null cell is written as an empty field
to_csv(cols, rows) ==
    File(cols, [i \in 1..Len(rows) |->
                  [c \in 1..Len(rows[i]) |->
                      IF isna(rows[i][c]) THEN Str("") ELSE rows[i][c]]])

\* df[[...]]: the listed columns, in the listed order
select_columns(cols, rows, wanted) ==
    [i \in 1..Len(rows) |->
        [k \in 1..Len(wanted) |-> rows[i][ColIndex(cols, wanted[k])]]]

Ok(rows) == [ok |-> TRUE, rows |-> rows]
Raise(exc) == [ok |-> FALSE, exc |-> exc]

\* read_csv, normalize, rename, keep only the warehouse columns
mapped_frame(file, mapping, wanted) ==
    IF ~file.exists THEN Raise("FileNotFoundError")
    ELSE LET frame == read_csv(file)
             cols == rename(normalize_columns(frame.cols), mapping)
         IN IF \E k \in 1..Len(wanted) : ~HasCol(cols, wanted[k])
              THEN Raise("KeyError")
            ELSE Ok(select_columns(cols, frame.rows, wanted))

\* duplicated(subset=[key], keep=False).any()
any_duplicated_key(rows, k) ==
    \E i, j \in 1..Len(rows) : i # j /\ rows[i][k] = rows[j][k]

\* drop_duplicates(subset=[key], keep="last")
mutant_drop_duplicates_subset(rows, k) ==
    Mask(rows, {i \in 1..Len(rows) :
                   \A j \in (i + 1)..Len(rows) : rows[j][k] # rows[i][k]})

\* drop_duplicates(subset=[key], keep="first")
drop_duplicates_subset(rows, k) ==
    Mask(rows, {i \in 1..Len(rows) :
                   \A j \in 1..(i - 1) : rows[j][k] # rows[i][k]})

---------------------------------------------------------------------------
(* Warehouse loader: the SQLite database *)

Keys(rows) == {rows[i][1] : i \in 1..Len(rows)}

\* PRIMARY KEY of a table: the first column, unique over the table
primary_key_ok(table, rows) ==
    /\ \A i, j \in 1..Len(rows) : i # j => rows[i][1] # rows[j][1]
    /\ Keys(rows) \cap Keys(table) = {}

\* PRAGMA foreign_keys = ON: a fact row must reference existing dimension rows
mutant_foreign_keys_ok(db, table, rows) ==
    table = "fact_sales" =>
        \A i \in 1..Len(rows) :
            /\ rows[i][2] \in Keys(db.dim_customer)
            /\ rows[i][3] \in Keys(db.dim_product)

\* The connection never turns foreign-key enforcement on, so SQLite does not
\* check the FOREIGN KEY clauses of fact_sales
foreign_keys_ok(db, table, rows) == TRUE

\* A failed insert undoes the whole run's inserts
mutant_rollback(db) ==
    [db EXCEPT !.dim_customer = <<>>, !.dim_product = <<>>, !.fact_sales = <<>>]

\* to_sql rolls back its own insert when it raises: the tables are as before
rollback(db) == db

\* DataFrame.to_sql(table, conn, if_exists="append", index=False): insert all
\* rows and commit, or raise and roll the insert back
to_sql(db, table, rows) ==
    IF primary_key_ok(db[table], rows) /\ foreign_keys_ok(db, table, rows)
      THEN [ok |-> TRUE, db |-> [db EXCEPT ![table] = @ \o rows]]
    ELSE [ok |-> FALSE, db |-> rollback(db), exc |-> "IntegrityError"]

\* A load step's frame followed by its to_sql
load_table(db, table, frame) ==
    IF frame.ok THEN to_sql(db, table, frame.rows)
    ELSE [ok |-> FALSE, db |-> db, exc |-> frame.exc]

---------------------------------------------------------------------------
(* Warehouse loader: load_data_to_dw *)

\* Prepared files a load may find
CustHeader == <<"CustomerID", "Name", "Region", "JoinDate">>
ProdHeader == <<"productid", "productname", "category", "unitprice">>
SalesHeader == <<"TransactionID", "SaleDate", "CustomerID", "ProductID", "SaleAmount">>

CustRow(id, name) == <<Num(id), Str(name), Str("east"), Str("2024-01-01")>>
ProdRow(id, name) == <<Num(id), Str(name), Str("office"), Num(3)>>
SalesRow(id, cust, date, amount) == <<Num(id), date, Num(cust), Num(1), amount>>

CustRows == {CustRow(1, "ann"), CustRow(1, "bob"), CustRow(2, "ann")}
ProdRows == {ProdRow(1, "pen"), ProdRow(1, "ink")}
\* customer 3 is in no customers file
SalesRows == {SalesRow(1, 1, Str("2024-01-01"), Num(5)),
              SalesRow(2, 3, Str("2024-01-01"), Num(5))}

CustFiles ==
    {Missing} \cup {File(CustHeader, r) : r \in SeqsUpTo(CustRows, MaxDimRows)}
ProdFiles == {File(ProdHeader, r) : r \in SeqsUpTo(ProdRows, MaxDimRows)}
SalesFiles == {File(SalesHeader, r) : r \in SeqsUpTo(SalesRows, MaxSalesRows)}

\* A warehouse file left by an earlier load of other prepared data
StaleDb ==
    Db(TRUE,
       <<<<Num(1), Str("old"), Str("west"), Str("2020-01-01")>>>>,
       <<<<Num(2), Str("old"), Str("office"), Num(1)>>>>,
       <<<<Num(1), Num(1), Num(2), Num(9), Str("2020-01-01")>>>>)

\* The existing warehouse file is kept (no DB_PATH.unlink())
mutant_unlink(file) == file

\* if DB_PATH.exists(): DB_PATH.unlink()
unlink(file) == NoFile

\* sqlite3.connect(DB_PATH): opens the file, creating an empty database
connect(file) == IF file.exists THEN file ELSE Db(FALSE, <<>>, <<>>, <<>>)

\* The exception leaves load_data_to_dw without passing the finally block
mutant_after_raise == "raised"

\* try/finally: an exception in the try block goes to the finally block
after_raise == "finally"

Idle == pc \in {"idle", "done", "raised"}

\* load_data_to_dw up to the try block: remove the old file, connect
load_data_to_dw ==
    /\ Idle
    /\ runs < MaxRuns
    /\ runs' = runs + 1
    /\ dbBefore' = dbFile
    /\ dbFile' = connect(unlink(dbFile))
    /\ conn' = "open"
    /\ openConns' = openConns + 1
    /\ raisedAt' = "none"
    /\ pc' = "create_schema"
    /\ UNCHANGED <<goodRuns, scrubVars, prepVars, mainVars>>

\* A step of the try block ends: normally, or raising
Step(step, ok, db, next) ==
    /\ dbFile' = db
    /\ pc' = IF ok THEN next ELSE after_raise
    /\ raisedAt' = IF ok THEN "none" ELSE step
    /\ UNCHANGED <<dbBefore, goodRuns, conn, openConns, runs, scrubVars, prepVars, mainVars>>

\* create_schema(cursor): CREATE TABLE IF NOT EXISTS for the three tables;
\* the statements may fail (sqlite3.Error)
create_schema ==
    /\ pc = "create_schema"
    /\ \E ok \in BOOLEAN :
        Step("create_schema", ok,
             IF ok THEN [dbFile EXCEPT !.schema = TRUE] ELSE dbFile,
             "commit_schema")

\* the first conn.commit(); it may fail (sqlite3.Error)
commit_schema ==
    /\ pc = "commit_schema"
    /\ \E ok \in BOOLEAN : Step("commit_schema", ok, dbFile, "load_dim_customer")

\* The frame load_dim_customer inserts
dim_customer_frame(file) ==
    LET frame == mapped_frame(file, customer_columns, dim_customer_cols)
    IN IF ~frame.ok THEN frame
       ELSE IF any_duplicated_key(frame.rows, 1)
         THEN Ok(drop_duplicates_subset(frame.rows, 1))
       ELSE frame

\* load_dim_customer(conn)
load_dim_customer ==
    /\ pc = "load_dim_customer"
    /\ LET r == load_table(dbFile, "dim_customer", dim_customer_frame(prepCust))
       IN Step("load_dim_customer", r.ok, r.db, "load_dim_product")

\* load_dim_product(conn)
load_dim_product ==
    /\ pc = "load_dim_product"
    /\ LET r == load_table(dbFile, "dim_product",
                           mapped_frame(prepProd, product_columns, dim_product_cols))
       IN Step("load_dim_product", r.ok, r.db, "load_fact_sales")

\* load_fact_sales(conn)
load_fact_sales ==
    /\ pc = "load_fact_sales"
    /\ LET r == load_table(dbFile, "fact_sales",
                           mapped_frame(prepSales, sales_columns, fact_sales_cols))
       IN Step("load_fact_sales", r.ok, r.db, "commit_loads")

\* the final conn.commit(); it may fail (sqlite3.Error)
commit_loads ==
    /\ pc = "commit_loads"
    /\ \E ok \in BOOLEAN : Step("commit_loads", ok, dbFile, "finally")

\* finally: conn.close(); then the run returns or the exception propagates
close_connection ==
    /\ pc = "finally"
    /\ conn' = "closed"
    /\ openConns' = openConns - 1
    /\ pc' = IF raisedAt = "none" THEN "done" ELSE "raised"
    /\ goodRuns' = IF raisedAt = "none"
                     THEN Append(goodRuns, GoodRun(prepCust, prepProd, prepSales, dbFile))
                   ELSE goodRuns
    /\ UNCHANGED <<dbFile, dbBefore, raisedAt, runs, scrubVars, prepVars, mainVars>>

InitLoad ==
    /\ ScrubQuiet
    /\ rawSales = Missing
    /\ rawCust = Missing
    /\ rawProd = Missing
    /\ MainQuiet
    /\ prepCust \in CustFiles
    /\ prepProd \in ProdFiles
    /\ prepSales \in SalesFiles
    /\ dbFile \in {NoFile, StaleDb}
    /\ dbBefore = NoFile
    /\ goodRuns = <<>>
    /\ conn = "none"
    /\ openConns = 0
    /\ pc = "idle"
    /\ raisedAt = "none"
    /\ runs = 0

NextLoad ==
    \/ load_data_to_dw
    \/ create_schema
    \/ commit_schema
    \/ load_dim_customer
    \/ load_dim_product
    \/ load_fact_sales
    \/ commit_loads
    \/ close_connection

SpecLoad == InitLoad /\ [][NextLoad]_vars

---------------------------------------------------------------------------
(* Sales preparation pipeline *)

\* A raw sales file: fields as written in the CSV, an empty field is ""
RawDates == {Str(""), Str("2024-01-01"), Str("not-a-date")}
RawAmounts == {Str(""), Num(5), Num(100)}
BlankSalesRow == <<Str(""), Str(""), Str(""), Str(""), Str("")>>
RawSalesRows ==
    {SalesRow(id, 1, d, a) : id \in {1, 2}, d \in RawDates, a \in RawAmounts}
        \cup {BlankSalesRow}
RawSalesFiles ==
    {Missing} \cup {File(SalesHeader, r) : r \in SeqsUpTo(RawSalesRows, MaxSalesRows)}

\* read_raw_data: the frame read, or an empty DataFrame when reading fails
read_raw_data(file) ==
    IF file.exists /\ file # Unreadable THEN read_csv(file)
    ELSE [cols |-> <<>>, rows |-> <<>>]

\* The test `if df_raw.empty` is left out
mutant_empty(frame) == FALSE

\* DataFrame.empty: no column or no row
empty(frame) == Len(frame.cols) = 0 \/ Len(frame.rows) = 0

\* select_dtypes(include="number"): the columns read_csv typed as numbers,
\* those whose fields are all numbers or empty, in column order
select_dtypes_number(frame) ==
    {c \in 1..Len(frame.cols) :
        \A i \in 1..Len(frame.rows) :
            is_number(frame.rows[i][c]) \/ isna(frame.rows[i][c])}

\* The call to drop_duplicates is left out
mutant_remove_duplicates(rows) == rows

\* remove_duplicates(df)
remove_duplicates(rows) == drop_duplicates(rows)

\* handle_missing_values(df): only rows that are completely blank are dropped
handle_missing_values(rows) == dropna_all(rows)

RECURSIVE Insert(_, _)
Insert(s, x) ==
    IF s = <<>> THEN <<x>>
    ELSE IF x <= Head(s) THEN <<x>> \o s
    ELSE <<Head(s)>> \o Insert(Tail(s), x)

RECURSIVE Sort(_)
Sort(s) == IF s = <<>> THEN <<>> ELSE Insert(Sort(Tail(s)), Head(s))

\* The non-null numbers of column c, ascending (quantile skips NaN)
sorted_values(rows, c) ==
    LET present == Mask(rows, {i \in 1..Len(rows) : is_number(rows[i][c])})
    IN Sort([i \in 1..Len(present) |-> present[i][c].n])

\* 4 * Series.quantile(k / 4), linear interpolation between order statistics
quantile_x4(v, k) ==
    LET h == k * (Len(v) - 1)
        lo == (h \div 4) + 1
        fr == h % 4
    IN IF fr = 0 THEN 4 * v[lo] ELSE 4 * v[lo] + fr * (v[lo + 1] - v[lo])

\* The pass without `if iqr == 0: continue`
mutant_remove_outliers_column(rows, c) ==
    LET v == sorted_values(rows, c)
    IN IF v = <<>> THEN <<>>
       ELSE LET q1 == quantile_x4(v, 1)
                q3 == quantile_x4(v, 3)
                iqr == q3 - q1
            IN Mask(rows, {i \in 1..Len(rows) :
                              /\ is_number(rows[i][c])
                              /\ 8 * rows[i][c].n >= 2 * q1 - 3 * iqr
                              /\ 8 * rows[i][c].n <= 2 * q3 + 3 * iqr})

\* One pass of the loop of remove_outliers, on column c.  Bounds are kept
\* as 8 * lower and 8 * upper so that the arithmetic stays in the integers.
remove_outliers_column(rows, c) ==
    LET v == sorted_values(rows, c)
    IN IF v = <<>>
         \* q1, q3 and iqr are NaN: iqr == 0 is False and no value passes
         THEN <<>>
       ELSE LET q1 == quantile_x4(v, 1)
                q3 == quantile_x4(v, 3)
                iqr == q3 - q1
                lower == 2 * q1 - 3 * iqr
                upper == 2 * q3 + 3 * iqr
            IN IF iqr = 0 THEN rows
               ELSE Mask(rows, {i \in 1..Len(rows) :
                                   /\ is_number(rows[i][c])
                                   /\ 8 * rows[i][c].n >= lower
                                   /\ 8 * rows[i][c].n <= upper})

RECURSIVE remove_outliers_from(_, _, _, _)
remove_outliers_from(rows, numeric_cols, c, ncols) ==
    IF c > ncols THEN rows
    ELSE remove_outliers_from(
            IF c \in numeric_cols THEN remove_outliers_column(rows, c) ELSE rows,
            numeric_cols, c + 1, ncols)

\* remove_outliers(df): the IQR filter on every numeric column, in order
remove_outliers(frame, rows) ==
    remove_outliers_from(rows, select_dtypes_number(frame), 1, Len(frame.cols))

\* save_prepared_data(df, file_name)
save_prepared_data(cols, rows) == to_csv(cols, rows)

\* prepare_sales_data.main: the pipeline runs while no load runs
prepare_sales_main ==
    /\ Idle
    /\ LET df_raw == read_raw_data(rawSales)
       IN prepSales' =
            IF empty(df_raw) THEN prepSales
            ELSE save_prepared_data(
                    df_raw.cols,
                    remove_outliers(df_raw,
                        handle_missing_values(remove_duplicates(df_raw.rows))))
    /\ UNCHANGED <<rawSales, prepCust, prepProd, rawCust, rawProd, mainVars, scrubVars, dwVars>>

InitSales ==
    /\ ScrubQuiet
    /\ rawSales \in RawSalesFiles
    /\ prepCust = File(CustHeader, <<CustRow(1, "ann")>>)
    /\ prepProd = File(ProdHeader, <<ProdRow(1, "pen")>>)
    /\ prepSales = Missing
    /\ rawCust = Missing
    /\ rawProd = Missing
    /\ MainQuiet
    /\ DwQuiet

NextSales ==
    \/ prepare_sales_main
    \/ NextLoad

SpecSales == InitSales /\ [][NextSales]_vars

---------------------------------------------------------------------------
(* Properties of the warehouse loader *)

Position(step) ==
    CASE step = "idle" -> 0
      [] step = "create_schema" -> 1
      [] step = "commit_schema" -> 2
      [] step = "load_dim_customer" -> 3
      [] step = "load_dim_product" -> 4
      [] step = "load_fact_sales" -> 5
      [] step = "commit_loads" -> 6
      [] OTHER -> 7

\* The step the current run stands at, or the step that raised
Reached == IF raisedAt = "none" THEN Position(pc) ELSE Position(raisedAt)

\* step has ended without raising in the current run
Completed(step) == Position(step) < Reached

LoadSteps == {"load_dim_customer", "load_dim_product", "load_fact_sales"}

InputRows(file) == IF file.exists THEN file.rows ELSE <<>>

HasKeyCollision(rows) ==
    \E i, j \in 1..Len(rows) : i # j /\ rows[i][1] = rows[j][1]

OneRowPerKey(table, input) ==
    /\ Keys(table) = Keys(input)
    /\ Cardinality(Keys(table)) = Len(table)

\* table holds the rows of input that are the first with their key, in order
IsFirstOccurrences(table, input) ==
    LET firsts == {i \in 1..Len(input) :
                      \A j \in 1..(i - 1) : input[j][1] # input[i][1]}
    IN /\ Len(table) = Cardinality(firsts)
       /\ \A k \in 1..Len(table) :
            \E i \in firsts :
                /\ table[k] = input[i]
                /\ Cardinality({j \in firsts : j < i}) = k - 1

\* A row of the prepared sales file in the column order of fact_sales
SaleAsFact(r) == <<r[1], r[3], r[4], r[5], r[2]>>

FactRows(file) ==
    [i \in 1..Len(InputRows(file)) |-> SaleAsFact(InputRows(file)[i])]

\* C1: for both dimension tables, an existing prepared file whose rows
\* collide on the key never makes the load fail, and the loaded table holds
\* exactly one row per distinct key.
C1_DimensionLoadsDeduplicate ==
    /\ prepCust.exists => raisedAt # "load_dim_customer"
    /\ Completed("load_dim_customer") =>
            OneRowPerKey(dbFile.dim_customer, InputRows(prepCust))
    /\ prepProd.exists => raisedAt # "load_dim_product"
    /\ Completed("load_dim_product") =>
            OneRowPerKey(dbFile.dim_product, InputRows(prepProd))

C3_EveryRunStartsEmpty ==
    /\ pc = "create_schema" => dbFile = Db(FALSE, <<>>, <<>>, <<>>)
    /\ pc = "commit_schema" => dbFile = Db(TRUE, <<>>, <<>>, <<>>)
    /\ pc = "done" =>
        /\ Range(dbFile.dim_customer) \subseteq Range(InputRows(prepCust))
        /\ Range(dbFile.dim_product) \subseteq Range(InputRows(prepProd))
        /\ Range(dbFile.fact_sales) \subseteq Range(FactRows(prepSales))
        /\ LET n == Len(goodRuns)
           IN (/\ n >= 2
               /\ goodRuns[n].cust = goodRuns[n - 1].cust
               /\ goodRuns[n].prod = goodRuns[n - 1].prod
               /\ goodRuns[n].sales = goodRuns[n - 1].sales)
              => goodRuns[n].db = goodRuns[n - 1].db

C3_Witness ==
    /\ pc = "done"
    /\ Len(goodRuns) = 2
    /\ goodRuns[1].db = dbFile
    /\ dbBefore = dbFile
    /\ dbFile.dim_customer # <<>>
    /\ dbFile.dim_product # <<>>
    /\ dbFile.fact_sales # <<>>

\* C4: the connection is closed on every exit path of load_data_to_dw,
\* normal or raising, and at no time is more than one connection open.
C4_ConnectionClosedOnEveryExit ==
    /\ openConns \in {0, 1}
    /\ pc = "idle" => openConns = 0 /\ conn = "none"
    /\ pc \in {"done", "raised"} => openConns = 0 /\ conn = "closed"
    /\ pc \notin {"idle", "done", "raised"} => openConns = 1 /\ conn = "open"

C4_Witness ==
    /\ pc = "raised"
    /\ raisedAt = "commit_loads"
    /\ conn = "closed"
    /\ openConns = 0
    /\ runs = 2

\* C5: when a table load fails no later step is attempted, the tables loaded
\* before it keep their rows, the failed and the later tables are empty, and
\* nothing of the previous warehouse file is left.
C5_LoadNotAtomicAcrossTables ==
    raisedAt \in LoadSteps =>
        /\ pc \in {"finally", "raised"}
        /\ dbFile.exists /\ dbFile.schema
        /\ dbFile.fact_sales = <<>>
        /\ raisedAt = "load_dim_customer" =>
                dbFile.dim_customer = <<>> /\ dbFile.dim_product = <<>>
        /\ raisedAt = "load_dim_product" =>
                /\ IsFirstOccurrences(dbFile.dim_customer, InputRows(prepCust))
                /\ dbFile.dim_product = <<>>
        /\ raisedAt = "load_fact_sales" =>
                /\ IsFirstOccurrences(dbFile.dim_customer, InputRows(prepCust))
                /\ dbFile.dim_product = InputRows(prepProd)

C5_Witness ==
    /\ pc = "raised"
    /\ raisedAt = "load_fact_sales"
    /\ dbBefore = StaleDb
    /\ dbFile.schema
    /\ dbFile.dim_customer # <<>>
    /\ dbFile.dim_product # <<>>
    /\ dbFile.fact_sales = <<>>

\* C6: load_fact_sales inserts every prepared sales row whatever its foreign
\* keys: a completed load holds all the rows, orphans included, and the load
\* raises only for a missing file or a repeated sale_id.
C6_OrphanFactsAccepted ==
    /\ Completed("load_fact_sales") => dbFile.fact_sales = FactRows(prepSales)
    /\ raisedAt = "load_fact_sales" =>
            ~prepSales.exists \/ HasKeyCollision(InputRows(prepSales))

C6_Witness ==
    /\ pc = "done"
    /\ \E i \in 1..Len(dbFile.fact_sales) :
        /\ dbFile.fact_sales[i][2] \notin Keys(dbFile.dim_customer)
        /\ dbFile.fact_sales[i][3] \notin Keys(dbFile.dim_product)

---------------------------------------------------------------------------
(* Properties of the sales pipeline followed by the load *)

\* Text that parses as a date
parseable_as_date(v) == v \in {Str("2024-01-01"), Str("2020-01-01")}

\* C7: every row persisted in fact_sales has a sale_amount that is a
\* non-null number and a sale_date that is non-null and parseable as a date.
C7_PersistedSalesAreClean ==
    dbFile.exists =>
        \A i \in 1..Len(dbFile.fact_sales) :
            /\ is_number(dbFile.fact_sales[i][4])
            /\ parseable_as_date(dbFile.fact_sales[i][5])


---------------------------------------------------------------------------
(* DataScrubber: the operations on named columns *)

MaxColRows == 2     \* rows of a Record Set given to a column operation
MaxColOps == 1      \* column operations called in one behaviour

\* A parsed timestamp (a cell of a datetime64 column)
Ts(t) == [k |-> "ts", t |-> t]

\* str.lower() on the text values of the model
str_lower(s) ==
    CASE s = " Alice " -> " alice "
      [] s = " ALICE " -> " alice "
      [] s = "Alice" -> "alice"
      [] s = "ALICE" -> "alice"
      [] s = "BOB" -> "bob"
      [] s = "NOT-A-DATE" -> "not-a-date"
      [] s = "Product ID" -> "product id"
      [] s = "Product Name" -> "product name"
      [] OTHER -> s

\* str.upper() on the text values of the model
str_upper(s) ==
    CASE s = " Alice " -> " ALICE "
      [] s = " alice " -> " ALICE "
      [] s = "Alice" -> "ALICE"
      [] s = "alice" -> "ALICE"
      [] s = "bob" -> "BOB"
      [] s = "not-a-date" -> "NOT-A-DATE"
      [] OTHER -> s

\* The call to str.strip() is left out
mutant_str_strip(s) == s

\* str.strip() on the text values of the model
str_strip(s) ==
    CASE s = " Alice " -> "Alice"
      [] s = " alice " -> "alice"
      [] s = " ALICE " -> "ALICE"
      [] s = "CustomerID " -> "CustomerID"
      [] s = " Name" -> "Name"
      [] s = " Product ID" -> "Product ID"
      [] OTHER -> s

\* errors="ignore": a text that is no date is handed back as it is
mutant_to_datetime(v) ==
    IF v.k = "str" THEN (IF v.s = "2024-01-05" THEN Ts("2024-01-05 00:00:00") ELSE v)
    ELSE v

\* pd.to_datetime(..., errors="coerce", format="mixed") on one cell of a text
\* column: a timestamp, or NaT for a null and for a text that is no date
to_datetime(v) ==
    IF v.k = "str"
      THEN (IF v.s = "2024-01-05" THEN Ts("2024-01-05 00:00:00") ELSE Null)
    ELSE IF v.k = "ts" THEN v
    ELSE Null

\* One end of the interval is open
mutant_between(v, lower_bound, upper_bound) == v >= lower_bound /\ v < upper_bound

\* (self.df[column] >= lower_bound) & (self.df[column] <= upper_bound)
between(v, lower_bound, upper_bound) == v >= lower_bound /\ v <= upper_bound

\* A Record Set with the dtype of each column
Frame(cols, dtypes, rows) == [cols |-> cols, dtypes |-> dtypes, rows |-> rows]

TextRow ==
    {<<n, a>> : n \in {Null, Str(" Alice "), Str("BOB")},
                a \in {Null, Num(25), Num(30)}}
DateRow == {<<d, a>> : d \in {Null, Str("2024-01-05"), Str("not-a-date")}, a \in {Num(25)}}

ColumnInputs ==
    {Frame(<<"name", "age">>, <<"object", "float64">>, r) :
        r \in SeqsUpTo(TextRow, MaxColRows)}
    \cup {Frame(<<"order_date", "age">>, <<"object", "float64">>, r) :
            r \in SeqsUpTo(DateRow, MaxColRows)}

\* Arguments of the calls
ColumnArgs == {"name", "age", "order_date", "absent"}
DateColumnArgs == {"name", "order_date", "absent"}
BoundArgs == {<<25, 25>>, <<26, 40>>}
MappingArgs ==
    {("name" :> "full_name"),
     ("name" :> "full_name") @@ ("absent" :> "other"),
     ("age" :> "years") @@ ("order_date" :> "ordered")}
OrderArgs ==
    {<<"age", "name">>, <<"age">>, <<"name", "absent">>, <<"age", "order_date">>}

\* Outcome of a call: the Record Set it leaves and the exception it raised
Returned(d) == [df |-> d, err |-> "none"]
Raised(d, exc) == [df |-> d, err |-> exc]

\* DataScrubber.filter_column_outliers: KeyError becomes ValueError; comparing
\* a text or a timestamp with a number raises TypeError inside pandas
filter_outliers(d, column, lower_bound, upper_bound) ==
    IF ~HasCol(d.cols, column) THEN Raised(d, "ValueError")
    ELSE LET c == ColIndex(d.cols, column)
         IN IF \/ d.dtypes[c] = "datetime64"
               \/ \E i \in 1..Len(d.rows) : d.rows[i][c].k = "str"
              THEN Raised(d, "TypeError")
            ELSE Returned([d EXCEPT !.rows =
                    Mask(d.rows, {i \in 1..Len(d.rows) :
                        /\ is_number(d.rows[i][c])
                        /\ between(d.rows[i][c].n, lower_bound, upper_bound)})])

\* self.df[column].str.lower().str.strip() / .str.upper().str.strip():
\* the .str accessor exists on object columns only (AttributeError otherwise)
format_column(d, column, upper) ==
    IF ~HasCol(d.cols, column) THEN Raised(d, "ValueError")
    ELSE LET c == ColIndex(d.cols, column)
             f(v) == IF v.k # "str" THEN Null
                     ELSE IF upper THEN Str(str_strip(str_upper(v.s)))
                     ELSE Str(str_strip(str_lower(v.s)))
         IN IF d.dtypes[c] # "object" THEN Raised(d, "AttributeError")
            ELSE Returned([d EXCEPT !.rows =
                    [i \in 1..Len(d.rows) |-> [d.rows[i] EXCEPT ![c] = f(@)]]])

\* DataScrubber.parse_dates_to_add_standard_datetime: the parsed column is
\* assigned to "StandardDateTime" (appended, or replaced when it exists)
parse_dates(d, column) ==
    IF ~HasCol(d.cols, column) THEN Raised(d, "ValueError")
    ELSE LET c == ColIndex(d.cols, column)
             parsed == [i \in 1..Len(d.rows) |-> to_datetime(d.rows[i][c])]
         IN IF HasCol(d.cols, "StandardDateTime")
              THEN LET t == ColIndex(d.cols, "StandardDateTime")
                   IN Returned([d EXCEPT
                        !.dtypes[t] = "datetime64",
                        !.rows = [i \in 1..Len(d.rows) |->
                                    [d.rows[i] EXCEPT ![t] = parsed[i]]]])
            ELSE Returned(Frame(Append(d.cols, "StandardDateTime"),
                                Append(d.dtypes, "datetime64"),
                                [i \in 1..Len(d.rows) |->
                                    Append(d.rows[i], parsed[i])]))

\* The loop over column_mapping is left out (DataFrame.rename ignores a
\* name that is not a column)
mutant_absent_old_names(cols, column_mapping) == {}

\* The old names of column_mapping that are not columns
absent_old_names(cols, column_mapping) ==
    {old_name \in DOMAIN column_mapping : ~HasCol(cols, old_name)}

\* DataScrubber.rename_columns
rename_frame(d, column_mapping) ==
    IF absent_old_names(d.cols, column_mapping) # {} THEN Raised(d, "ValueError")
    ELSE Returned([d EXCEPT !.cols = rename(d.cols, column_mapping)])

\* The listed columns are selected in the order the Record Set had them
mutant_reordered(cols, columns) ==
    Mask(cols, {i \in 1..Len(cols) : cols[i] \in Range(columns)})

\* The column names of self.df[columns]
reordered(cols, columns) == columns

\* DataScrubber.reorder_columns
reorder_frame(d, columns) ==
    IF \E k \in 1..Len(columns) : ~HasCol(d.cols, columns[k])
      THEN Raised(d, "ValueError")
    ELSE LET kept == reordered(d.cols, columns)
         IN Returned(Frame(kept,
                [k \in 1..Len(kept) |-> d.dtypes[ColIndex(d.cols, kept[k])]],
                select_columns(d.cols, d.rows, kept)))

\* One call of a column operation: the Record Set and the exception it leaves
ColumnCall(op, args, result) ==
    /\ Len(trace) < maxCalls
    /\ df' = result.df
    /\ err' = result.err
    /\ maxCalls' = maxCalls
    /\ df_in' = df
    /\ df0' = df0
    /\ call' = Call(op, FALSE, None)
    /\ arg' = args
    /\ trace' = Append(trace, op)
    /\ UNCHANGED <<prepVars, mainVars, dwVars>>

\* DataScrubber.filter_column_outliers
filter_column_outliers ==
    \E column \in ColumnArgs, b \in BoundArgs :
        ColumnCall("filter_column_outliers",
                   [column |-> column, lower_bound |-> b[1], upper_bound |-> b[2]],
                   filter_outliers(df, column, b[1], b[2]))

\* DataScrubber.format_column_strings_to_lower_and_trim
format_column_strings_to_lower_and_trim ==
    \E column \in ColumnArgs :
        ColumnCall("format_column_strings_to_lower_and_trim",
                   [column |-> column], format_column(df, column, FALSE))

\* DataScrubber.format_column_strings_to_upper_and_trim
format_column_strings_to_upper_and_trim ==
    \E column \in ColumnArgs :
        ColumnCall("format_column_strings_to_upper_and_trim",
                   [column |-> column], format_column(df, column, TRUE))

\* DataScrubber.parse_dates_to_add_standard_datetime
parse_dates_to_add_standard_datetime ==
    \E column \in DateColumnArgs :
        ColumnCall("parse_dates_to_add_standard_datetime",
                   [column |-> column], parse_dates(df, column))

\* DataScrubber.rename_columns
rename_columns ==
    \E column_mapping \in MappingArgs :
        ColumnCall("rename_columns",
                   [column_mapping |-> column_mapping],
                   rename_frame(df, column_mapping))

\* DataScrubber.reorder_columns
reorder_columns ==
    \E columns \in OrderArgs :
        ColumnCall("reorder_columns",
                   [columns |-> columns], reorder_frame(df, columns))

\* DataScrubber.__init__ on a Record Set with a text and a numeric column
InitColumn ==
    /\ df \in ColumnInputs
    /\ df0 = df
    /\ df_in = df
    /\ call = Call("init", FALSE, None)
    /\ trace = <<>>
    /\ arg = NoArgs
    /\ err = "none"
    /\ maxCalls = MaxColOps
    /\ PrepQuiet
    /\ DwQuiet

NextColumn ==
    \/ filter_column_outliers
    \/ format_column_strings_to_lower_and_trim
    \/ format_column_strings_to_upper_and_trim
    \/ parse_dates_to_add_standard_datetime
    \/ rename_columns
    \/ reorder_columns

SpecColumn == InitColumn /\ [][NextColumn]_vars


---------------------------------------------------------------------------
(* Properties of the operations on named columns *)

AfterCall(op) == call.op = op

\* The column holds numbers and nulls only
HoldsNumbers(d, column) ==
    /\ d.dtypes[ColIndex(d.cols, column)] # "datetime64"
    /\ \A i \in 1..Len(d.rows) : d.rows[i][ColIndex(d.cols, column)].k \in {"num", "null"}

\* C12: filter_column_outliers(column, lower, upper) on an existing column
\* of numbers returns normally and retains exactly the rows whose value v in
\* that column satisfies lower <= v <= upper, both ends inclusive, in their
\* original order; a row whose value is null is removed.
C12_FilterKeepsInclusiveRange ==
    (/\ AfterCall("filter_column_outliers")
     /\ HasCol(df_in.cols, arg.column)
     /\ HoldsNumbers(df_in, arg.column)) =>
        LET c == ColIndex(df_in.cols, arg.column)
            old == df_in.rows
            keep == {i \in 1..Len(old) :
                        /\ old[i][c].k = "num"
                        /\ arg.lower_bound <= old[i][c].n
                        /\ old[i][c].n <= arg.upper_bound}
        IN /\ err = "none"
           /\ df.cols = df_in.cols
           /\ IsSubsequenceAt(df.rows, old, keep)
           /\ \A i \in 1..Len(df.rows) : ~isna(df.rows[i][c])

C12_Witness ==
    /\ AfterCall("filter_column_outliers")
    /\ arg = [column |-> "age", lower_bound |-> 25, upper_bound |-> 25]
    /\ Len(df_in.rows) = 2
    /\ isna(df_in.rows[1][2])
    /\ df.rows = <<df_in.rows[2]>>
    /\ df.rows[1][2] = Num(25)

\* The column names a call was given
GivenColumns ==
    IF AfterCall("rename_columns") THEN DOMAIN arg.column_mapping
    ELSE IF AfterCall("reorder_columns") THEN Range(arg.columns)
    ELSE {arg.column}

\* C13: rename_columns, reorder_columns, format_column_strings_to_lower_and_trim,
\* format_column_strings_to_upper_and_trim and filter_column_outliers each end
\* in the column-not-found error (ValueError) when a column name they are
\* given is absent, and leave the Record Set exactly as it was; a rename
\* mapping with one absent old name applies none of its renames.
C13_AbsentColumnRaisesAndKeeps ==
    (/\ call.op \in {"rename_columns", "reorder_columns",
                     "format_column_strings_to_lower_and_trim",
                     "format_column_strings_to_upper_and_trim",
                     "filter_column_outliers"}
     /\ \E name \in GivenColumns : ~HasCol(df_in.cols, name)) =>
        /\ err = "ValueError"
        /\ df = df_in

C13_Witness ==
    /\ AfterCall("rename_columns")
    /\ arg.column_mapping = ("name" :> "full_name") @@ ("absent" :> "other")
    /\ HasCol(df_in.cols, "name")
    /\ Len(df_in.rows) = 2
    /\ err = "ValueError"
    /\ df.cols = <<"name", "age">>

\* Texts that pd.to_datetime reads as a date, with the timestamp they give
ParsedText == ("2024-01-05" :> "2024-01-05 00:00:00")

\* C14: parse_dates_to_add_standard_datetime ends in the column-not-found
\* error exactly when the source column is absent (the Record Set is then
\* unchanged) and never fails on an unparseable value: it adds the column
\* StandardDateTime holding the parsed timestamp for a parseable value and
\* null for any other, and leaves the source column, every other column
\* and the row count unchanged.
C14_ParseDatesCoerces ==
    AfterCall("parse_dates_to_add_standard_datetime") =>
        IF ~HasCol(df_in.cols, arg.column)
          THEN err = "ValueError" /\ df = df_in
        ELSE LET c == ColIndex(df_in.cols, arg.column)
                 n == Len(df_in.cols)
             IN /\ err = "none"
                /\ ~HasCol(df_in.cols, "StandardDateTime") =>
                      df.cols = Append(df_in.cols, "StandardDateTime")
                /\ Len(df.rows) = Len(df_in.rows)
                /\ \A i \in 1..Len(df.rows) :
                    LET src == df_in.rows[i][c]
                        out == df.rows[i][ColIndex(df.cols, "StandardDateTime")]
                    IN /\ \A k \in 1..n :
                            df.cols[k] # "StandardDateTime" =>
                                df.rows[i][k] = df_in.rows[i][k]
                       /\ (src.k = "str" /\ src.s \in DOMAIN ParsedText) =>
                            out = [k |-> "ts", t |-> ParsedText[src.s]]
                       /\ (src.k = "null" \/ (src.k = "str" /\ src.s \notin DOMAIN ParsedText)) =>
                            out = Null

C14_Witness ==
    /\ AfterCall("parse_dates_to_add_standard_datetime")
    /\ arg.column = "order_date"
    /\ err = "none"
    /\ df_in.rows = << <<Str("2024-01-05"), Num(25)>>, <<Str("not-a-date"), Num(25)>> >>
    /\ df.cols = <<"order_date", "age", "StandardDateTime">>
    /\ df.rows[2] = <<Str("not-a-date"), Num(25), Null>>
    /\ df.rows[1][3].k = "ts"

\* C15: reorder_columns(order), every listed column existing, leaves the
\* Record Set with exactly the listed columns in the given order; the rows
\* and the values of the kept columns are unchanged.
C15_ReorderKeepsListedColumns ==
    (/\ AfterCall("reorder_columns")
     /\ \A name \in Range(arg.columns) : HasCol(df_in.cols, name)) =>
        /\ err = "none"
        /\ df.cols = arg.columns
        /\ Len(df.rows) = Len(df_in.rows)
        /\ \A i \in 1..Len(df.rows) :
            /\ Len(df.rows[i]) = Len(arg.columns)
            /\ \A k \in 1..Len(arg.columns) :
                \E j \in 1..Len(df_in.cols) :
                    /\ df_in.cols[j] = arg.columns[k]
                    /\ df.rows[i][k] = df_in.rows[i][j]

C15_Witness ==
    /\ AfterCall("reorder_columns")
    /\ arg.columns = <<"age", "name">>
    /\ df_in.rows = << <<Str("BOB"), Num(30)>>, <<Null, Num(25)>> >>
    /\ df.cols = <<"age", "name">>
    /\ df.rows = << <<Num(30), Str("BOB")>>, <<Num(25), Null>> >>

\* The text values a column can hold, lowercased and stripped of the
\* whitespace at both ends, and uppercased and stripped
LowerTrimmed ==
    (" Alice " :> "alice") @@ ("BOB" :> "bob") @@
    ("alice" :> "alice") @@ ("bob" :> "bob") @@ ("ALICE" :> "alice") @@
    ("2024-01-05" :> "2024-01-05") @@
    ("not-a-date" :> "not-a-date") @@ ("NOT-A-DATE" :> "not-a-date")
UpperTrimmed ==
    (" Alice " :> "ALICE") @@ ("BOB" :> "BOB") @@
    ("alice" :> "ALICE") @@ ("bob" :> "BOB") @@ ("ALICE" :> "ALICE") @@
    ("2024-01-05" :> "2024-01-05") @@
    ("not-a-date" :> "NOT-A-DATE") @@ ("NOT-A-DATE" :> "NOT-A-DATE")

AfterFormat ==
    /\ call.op \in {"format_column_strings_to_lower_and_trim",
                    "format_column_strings_to_upper_and_trim"}
    /\ HasCol(df_in.cols, arg.column)
    /\ df_in.dtypes[ColIndex(df_in.cols, arg.column)] = "object"

\* C16: format_column_strings_to_lower_and_trim (to_upper_and_trim) on an
\* existing text column replaces every non-null value of the column by its
\* lowercase (uppercase) form with leading and trailing whitespace removed;
\* null values stay null and nothing else in the Record Set changes.
C16_FormatLowerUpperTrim ==
    AfterFormat =>
        LET c == ColIndex(df_in.cols, arg.column)
            expected == IF AfterCall("format_column_strings_to_lower_and_trim")
                          THEN LowerTrimmed ELSE UpperTrimmed
        IN /\ err = "none"
           /\ df.cols = df_in.cols
           /\ Len(df.rows) = Len(df_in.rows)
           /\ \A i \in 1..Len(df.rows) :
                /\ \A k \in 1..Len(df.cols) :
                    k # c => df.rows[i][k] = df_in.rows[i][k]
                /\ isna(df_in.rows[i][c]) => isna(df.rows[i][c])
                /\ ~isna(df_in.rows[i][c]) =>
                    df.rows[i][c] = [k |-> "str", s |-> expected[df_in.rows[i][c].s]]

C16_Witness ==
    /\ AfterCall("format_column_strings_to_lower_and_trim")
    /\ arg.column = "name"
    /\ df_in.rows = << <<Str(" Alice "), Num(25)>>, <<Null, Num(30)>> >>
    /\ df.rows = << <<Str("alice"), Num(25)>>, <<Null, Num(30)>> >>


---------------------------------------------------------------------------
(* The three domain pipelines, step by step *)

MaxRawRows == 6     \* rows of a raw customers file

\* str.replace(" ", "_") on the header names of the model
str_replace_space(s) ==
    CASE s = "product id" -> "product_id"
      [] s = "product name" -> "product_name"
      [] OTHER -> s

\* prepare_customers_data.main: df.columns.str.strip()
clean_column_names(cols) == [i \in 1..Len(cols) |-> str_strip(cols[i])]

\* prepare_products_data.standardize_formats: only the column names change
standardize_formats(cols) ==
    [i \in 1..Len(cols) |-> str_replace_space(str_lower(str_strip(cols[i])))]

\* Raw files: fields as written in the CSV, an empty field is ""
RawCustHeader == <<"CustomerID ", " Name", "Points">>
BlankCustRow == <<Str(""), Str(""), Str("")>>
RawCustRows ==
    {BlankCustRow,
     <<Num(1), Str("ann"), Num(5)>>, <<Num(2), Str("bob"), Num(5)>>,
     <<Num(3), Str("cy"), Num(5)>>, <<Num(4), Str("dee"), Num(1000)>>}
\* The file lists its customers by ascending CustomerID; blank rows and
\* repeated rows stand anywhere
ListedById(r) ==
    \A i, j \in 1..Len(r) :
        (i < j /\ r[i] # BlankCustRow /\ r[j] # BlankCustRow) =>
            \/ r[i][1].n <= r[j][1].n
            \/ \E h \in 1..(j - 1) : r[h] = r[j]
RawCustFiles ==
    {Missing, Unreadable}
        \cup {File(RawCustHeader, r) :
                r \in {q \in SeqsUpTo(RawCustRows, MaxRawRows) : ListedById(q)}}

RawProdHeader == <<" Product ID", "Product Name">>
RawProdRows ==
    {<<Str(""), Str("")>>, <<Num(1), Str("pen")>>,
     <<Num(1), Str("")>>, <<Str("P2"), Str("pen")>>}
RawProdFiles ==
    {Missing, Unreadable}
        \cup {File(RawProdHeader, r) : r \in SeqsUpTo(RawProdRows, MaxDimRows)}

Domains == {"customers", "products", "sales"}

\* input_file of the main of the running domain
raw_file ==
    CASE domain = "customers" -> rawCust
      [] domain = "products" -> rawProd
      [] domain = "sales" -> rawSales

\* numeric_cols: the numeric columns (by position) in column order
numeric_cols(numeric, ncols) == Mask([i \in 1..ncols |-> i], numeric)

Pass(col, before, after) == [col |-> col, before |-> before, after |-> after]

\* main up to `if df_raw.empty: logger.error(...); return`
main_read_raw_data ==
    /\ mainPc = "read_raw_data"
    /\ LET df_raw == read_raw_data(raw_file)
       IN IF empty(df_raw)
            THEN /\ mainPc' = "aborted"
                 /\ steps' = <<"read_raw_data", "logger.error">>
                 /\ work' = work
          ELSE /\ mainPc' = IF domain = "sales" THEN "remove_duplicates"
                            ELSE "normalize_column_names"
               /\ steps' = <<"read_raw_data">>
               /\ work' = [cols |-> df_raw.cols, rows |-> df_raw.rows,
                           numeric |-> select_dtypes_number(df_raw)]
    /\ UNCHANGED <<domain, passes, prepVars, scrubVars, dwVars>>

\* customers: df.columns = df.columns.str.strip();
\* products: df = standardize_formats(df); the sales main has no such step
main_normalize_column_names ==
    /\ mainPc = "normalize_column_names"
    /\ work' = [work EXCEPT !.cols =
                    IF domain = "customers" THEN clean_column_names(work.cols)
                    ELSE standardize_formats(work.cols)]
    /\ steps' = Append(steps, "normalize_column_names")
    /\ mainPc' = "remove_duplicates"
    /\ UNCHANGED <<domain, passes, prepVars, scrubVars, dwVars>>

\* df = remove_duplicates(df)
main_remove_duplicates ==
    /\ mainPc = "remove_duplicates"
    /\ work' = [work EXCEPT !.rows = remove_duplicates(work.rows)]
    /\ steps' = Append(steps, "remove_duplicates")
    /\ mainPc' = "handle_missing_values"
    /\ UNCHANGED <<domain, passes, prepVars, scrubVars, dwVars>>

\* df = handle_missing_values(df)
main_handle_missing_values ==
    /\ mainPc = "handle_missing_values"
    /\ work' = [work EXCEPT !.rows = handle_missing_values(work.rows)]
    /\ steps' = Append(steps, "handle_missing_values")
    /\ mainPc' = "remove_outliers"
    /\ UNCHANGED <<domain, passes, prepVars, scrubVars, dwVars>>

\* df = remove_outliers(df): one iteration of `for col in numeric_cols`
\* (the whole call when there is no numeric column)
main_remove_outliers ==
    /\ mainPc = "remove_outliers"
    /\ LET cols == numeric_cols(work.numeric, Len(work.cols))
           k == Len(passes) + 1
       IN IF cols = <<>>
            THEN /\ work' = work
                 /\ passes' = passes
                 /\ steps' = Append(steps, "remove_outliers")
                 /\ mainPc' = "save_prepared_data"
          ELSE LET after == remove_outliers_column(work.rows, cols[k])
               IN /\ work' = [work EXCEPT !.rows = after]
                  /\ passes' = Append(passes, Pass(cols[k], work.rows, after))
                  /\ IF k = Len(cols)
                       THEN /\ steps' = Append(steps, "remove_outliers")
                            /\ mainPc' = "save_prepared_data"
                     ELSE UNCHANGED <<steps, mainPc>>
    /\ UNCHANGED <<domain, prepVars, scrubVars, dwVars>>

\* save_prepared_data(df, output_file), the last statement of main that acts
main_save_prepared_data ==
    /\ mainPc = "save_prepared_data"
    /\ LET out == save_prepared_data(work.cols, work.rows)
       IN /\ prepCust' = IF domain = "customers" THEN out ELSE prepCust
          /\ prepProd' = IF domain = "products" THEN out ELSE prepProd
          /\ prepSales' = IF domain = "sales" THEN out ELSE prepSales
    /\ steps' = Append(steps, "save_prepared_data")
    /\ mainPc' = "done"
    /\ UNCHANGED <<domain, work, passes, rawSales, rawCust, rawProd, scrubVars, dwVars>>

\* One of the three mains is started on the raw file of its domain
InitMain ==
    /\ domain \in Domains
    /\ rawCust \in (IF domain = "customers" THEN RawCustFiles ELSE {Missing})
    /\ rawProd \in (IF domain = "products" THEN RawProdFiles ELSE {Missing})
    /\ rawSales \in (IF domain = "sales" THEN RawSalesFiles \cup {Unreadable}
                     ELSE {Missing})
    /\ prepCust = Missing
    /\ prepProd = Missing
    /\ prepSales = Missing
    /\ mainPc = "read_raw_data"
    /\ work = [cols |-> <<>>, rows |-> <<>>, numeric |-> {}]
    /\ steps = <<>>
    /\ passes = <<>>
    /\ ScrubQuiet
    /\ DwQuiet

NextMain ==
    \/ main_read_raw_data
    \/ main_normalize_column_names
    \/ main_remove_duplicates
    \/ main_handle_missing_values
    \/ main_remove_outliers
    \/ main_save_prepared_data

SpecMain == InitMain /\ [][NextMain]_vars


---------------------------------------------------------------------------
(* Properties of the domain pipelines *)

\* The raw input of the running domain is missing, unreadable or has no row
RawUnavailable ==
    \/ ~raw_file.exists
    \/ raw_file = Unreadable
    \/ Len(raw_file.rows) = 0

NothingPrepared ==
    /\ prepCust = Missing
    /\ prepProd = Missing
    /\ prepSales = Missing

\* C17: when the raw input of a domain is missing or unreadable, or has zero
\* rows, the main of that domain reports the error, runs no cleaning step,
\* writes no prepared output and returns (it does not raise); a main whose
\* raw input holds a row never aborts.
C17_AbortOnUnavailableInput ==
    /\ (RawUnavailable /\ mainPc # "read_raw_data") =>
            /\ mainPc = "aborted"
            /\ steps = <<"read_raw_data", "logger.error">>
            /\ passes = <<>>
            /\ NothingPrepared
    /\ ~RawUnavailable => mainPc # "aborted"

C17_Witness ==
    /\ domain = "customers"
    /\ rawCust = Unreadable
    /\ mainPc = "aborted"
    /\ NothingPrepared

IsBlank(row) == \A c \in 1..Len(row) : isna(row[c])

\* Positions of the rows that are not blank and equal no earlier row
FirstNonBlank(rows) ==
    {i \in 1..Len(rows) :
        ~IsBlank(rows[i]) /\ \A j \in 1..(i - 1) : rows[j] # rows[i]}

\* A pass keeps the row: the IQR of the column over the rows the pass
\* started with is 0, or the value is a number inside the IQR bounds
\* (quartiles are held as 4 * Q, the comparison is made on 8 * v)
PassKeeps(p, row) ==
    LET v == sorted_values(p.before, p.col)
    IN /\ v # <<>>
       /\ LET q1 == quantile_x4(v, 1)
              q3 == quantile_x4(v, 3)
              iqr == q3 - q1
          IN \/ iqr = 0
             \/ /\ row[p.col].k = "num"
                /\ 2 * q1 - 3 * iqr <= 8 * row[p.col].n
                /\ 8 * row[p.col].n <= 2 * q3 + 3 * iqr

CustomersDone == domain = "customers" /\ mainPc = "done"

\* The rows of the raw customers file as read
CustomersIn == read_csv(rawCust).rows

\* The scenario: a fully blank row, an exact duplicate row and a row with
\* the extreme value 1000 in the numeric column Points
ScenarioInput ==
    /\ \E i \in 1..Len(CustomersIn) : IsBlank(CustomersIn[i])
    /\ \E i, j \in 1..Len(CustomersIn) :
        i < j /\ CustomersIn[i] = CustomersIn[j] /\ ~IsBlank(CustomersIn[i])
    /\ \E i \in 1..Len(CustomersIn) : CustomersIn[i][3] = Num(1000)

\* The claim as the specification words it: the blank row, the duplicate
\* copy and the outlier row are absent from the prepared output, every other
\* row is present, and the removals are made in the order blank row, then
\* duplicate, then outlier.
C18_BlankDuplicateOutlierRemoved ==
    (CustomersDone /\ ScenarioInput) =>
        /\ IsSubsequenceAt(read_csv(prepCust).rows, CustomersIn,
                {i \in FirstNonBlank(CustomersIn) : CustomersIn[i][3] # Num(1000)})
        /\ steps = <<"read_raw_data", "normalize_column_names",
                     "handle_missing_values", "remove_duplicates",
                     "remove_outliers", "save_prepared_data">>

\* C18: the customers pipeline applied to a raw input holding a fully blank
\* row, an exact duplicate row and a row with an extreme value in a numeric
\* column removes duplicates first, then blank rows, then outliers; the
\* prepared output holds no blank row and no duplicate copy, and holds
\* exactly the remaining rows that every column pass of the outlier step
\* keeps, in their original order: the row with the extreme value is absent
\* exactly when a pass whose IQR is not 0 finds its value outside the IQR
\* bounds.
C18_DuplicateBlankOutlierRemoved ==
    (CustomersDone /\ ScenarioInput) =>
        LET base == Mask(CustomersIn, FirstNonBlank(CustomersIn))
            out == read_csv(prepCust).rows
        IN /\ steps = <<"read_raw_data", "normalize_column_names",
                        "remove_duplicates", "handle_missing_values",
                        "remove_outliers", "save_prepared_data">>
           /\ prepCust.cols = <<"CustomerID", "Name", "Points">>
           /\ \A i \in 1..Len(out) : ~IsBlank(out[i])
           /\ \A i, j \in 1..Len(out) : i # j => out[i] # out[j]
           /\ \A k \in 1..Len(passes) :
                passes[k].before = IF k = 1 THEN base ELSE passes[k - 1].after
           /\ IsSubsequenceAt(out, base,
                {i \in 1..Len(base) :
                    \A k \in 1..Len(passes) : PassKeeps(passes[k], base[i])})

C18_Witness ==
    /\ CustomersDone
    /\ ScenarioInput
    /\ Len(CustomersIn) = 6
    /\ read_csv(prepCust).rows =
        << <<Num(1), Str("ann"), Num(5)>>, <<Num(2), Str("bob"), Num(5)>>,
           <<Num(3), Str("cy"), Num(5)>> >>

\* C19: remove_outliers of each domain pipeline treats the numeric columns
\* one at a time in column order, each pass starting from the rows the pass
\* before it left; for a column whose IQR over the rows at the start of its
\* pass is greater than 0, every value v left by the pass satisfies
\* Q1 - 1.5*IQR <= v <= Q3 + 1.5*IQR; for a column whose IQR is 0 the pass
\* removes no row.
C19_IqrPassBounds ==
    \A k \in 1..Len(passes) :
        LET p == passes[k]
            v == sorted_values(p.before, p.col)
        IN /\ p.col \in work.numeric
           /\ Cardinality({c \in work.numeric : c <= p.col}) = k
           /\ k > 1 => p.before = passes[k - 1].after
           /\ v # <<>> =>
                LET q1 == quantile_x4(v, 1)
                    q3 == quantile_x4(v, 3)
                    iqr == q3 - q1
                IN /\ iqr > 0 =>
                        \A i \in 1..Len(p.after) :
                            /\ p.after[i][p.col].k = "num"
                            /\ 8 * q1 - 12 * iqr <= 32 * p.after[i][p.col].n
                            /\ 32 * p.after[i][p.col].n <= 8 * q3 + 12 * iqr
                   /\ iqr = 0 => p.after = p.before

C19_Witness ==
    /\ Len(passes) = 2
    /\ passes[1].after = passes[1].before
    /\ passes[2].col = 3
    /\ Len(passes[2].before) = 4
    /\ Len(passes[2].after) = 3
    /\ \E i \in 1..4 : passes[2].before[i][3] = Num(1000)
    /\ \A i \in 1..3 : passes[2].after[i][3] = Num(5)

\* C20: each of the three domain pipelines runs its steps in the same fixed
\* order: normalize column names, remove duplicate rows, resolve missing
\* values, normalize text columns, trim outliers over all numeric columns,
\* and only then writes the prepared output.
C20_SameFixedStepOrder ==
    mainPc = "done" =>
        steps = <<"read_raw_data", "normalize_column_names", "remove_duplicates",
                  "handle_missing_values", "normalize_text_columns",
                  "remove_outliers", "save_prepared_data">>


---------------------------------------------------------------------------
(* DataScrubber: sequences of the row-removing operations *)

RemovalRow == {<<n, a>> : n \in {Null, Str("BOB")}, a \in {Null, Num(25), Num(30)}}

RemovalInputs ==
    {Frame(<<"name", "age">>, <<"object", "float64">>, r) :
        r \in SeqsUpTo(RemovalRow, MaxColRows)}

\* DataScrubber.__init__, followed by up to MaxOps calls
InitRemoval ==
    /\ df \in RemovalInputs
    /\ df0 = df
    /\ df_in = df
    /\ call = Call("init", FALSE, None)
    /\ trace = <<>>
    /\ arg = NoArgs
    /\ err = "none"
    /\ maxCalls = MaxOps
    /\ PrepQuiet
    /\ DwQuiet

NextRemoval ==
    \/ remove_duplicate_records
    \/ handle_missing_data
    \/ filter_column_outliers

SpecRemoval == InitRemoval /\ [][NextRemoval]_vars

---------------------------------------------------------------------------
(* Properties of the sequences of row-removing operations *)

\* new is old restricted to some of its positions, in order
IsSubsequence(new, old) ==
    \E keep \in SUBSET (1..Len(old)) : IsSubsequenceAt(new, old, keep)

\* The row is the old row, a null cell of it possibly replaced by a fill value
IsFilled(row, old) ==
    /\ Len(row) = Len(old)
    /\ \A c \in 1..Len(old) :
        \/ row[c] = old[c]
        \/ isna(old[c]) /\ row[c] \in FillValues \ {None}

\* new is old restricted to some of its positions, in order, up to filled cells
IsSubsequenceFilled(new, old) ==
    \E keep \in SUBSET (1..Len(old)) :
        /\ Len(new) = Cardinality(keep)
        /\ \A i \in keep : IsFilled(new[Cardinality({j \in keep : j <= i})], old[i])

\* The claim as the specification words it: after any sequence of
\* remove_duplicate_records, handle_missing_data (either mode) and
\* filter_column_outliers the rows held are a subsequence of the initial
\* rows, the row count never increases, the columns are unchanged and a
\* failed call changes nothing.
C21_RowsAreSubsequenceOfInitial ==
    /\ IsSubsequence(df.rows, df0.rows)
    /\ Len(df.rows) <= Len(df_in.rows)
    /\ df.cols = df0.cols
    /\ err # "none" => df = df_in

\* C21: after any sequence of remove_duplicate_records, handle_missing_data
\* (either mode) and filter_column_outliers no row is added and no row is
\* reordered: the rows held are a subsequence of the initial rows in which a
\* fill call may have replaced null cells by its fill value (and of the rows
\* before the last call, cell for cell, when that call was no fill); the row
\* count never increases from one call to the next, the set and order of
\* columns is unchanged, and a failed call changes nothing.
C21_RowsAreSubsequenceUpToFill ==
    /\ IsSubsequenceFilled(df.rows, df0.rows)
    /\ IF AfterFill THEN IsSubsequenceFilled(df.rows, df_in.rows)
       ELSE IsSubsequence(df.rows, df_in.rows)
    /\ Len(df.rows) <= Len(df_in.rows)
    /\ df.cols = df0.cols
    /\ err # "none" => df = df_in

C21_Witness ==
    /\ trace = <<"handle_missing_data", "filter_column_outliers">>
    /\ df0.rows = << <<Str("BOB"), Null>>, <<Null, Num(25)>> >>
    /\ df_in.rows = << <<Str("BOB"), Num(0)>>, <<Num(0), Num(25)>> >>
    /\ arg = [column |-> "age", lower_bound |-> 25, upper_bound |-> 25]
    /\ err = "none"
    /\ df.rows = << <<Num(0), Num(25)>> >>

===========================================================================
